---- MODULE Spec2Model ----
(***************************************************************************)
(* Model of the metric pipeline of src/src/github-wrapper.ts               *)
(* (calculateMetricsForRepo, parseUrlFile) and of the bus-factor script    *)
(* src/unnamed/part_000 (calculateBusFactor, calculateBusFactorForRepo,    *)
(* main).                                                                  *)
(*                                                                         *)
(* Strings are sequences of one-character strings.  JavaScript numbers     *)
(* are IEEE-754 binary64 values: the quotient and the product of line 50   *)
(* of part_000 are computed bit by bit with round-to-nearest-even.         *)
(***************************************************************************)
EXTENDS Integers, Sequences, FiniteSets, TLC

(***************************************************************************)
(* Bounds of the model.                                                    *)
(***************************************************************************)
MaxContributors == 3
MaxLines == 2
MaxUrlParts == 5

\* contribution counts the contributor lists are built from
ContribValues == {0, 1, 2, 21, 29}
\* thresholds calculateBusFactor is called with
ThresholdValues == (-1)..101

(***************************************************************************)
(* IEEE-754 binary64 arithmetic, as far as line 50 of part_000 needs it:   *)
(* (commitSum / totalCommits) * 100 >= threshold, for integers             *)
(* 0 <= commitSum <= totalCommits.                                         *)
(* A number is [k |-> "nan"], [k |-> "zero"] or                            *)
(* [k |-> "num", m |-> bits, e |-> exponent]: the 53 significand bits,     *)
(* most significant first (m[1] = 1), the value being 1.m[2]m[3].. * 2^e.  *)
(***************************************************************************)
MantissaBits == 53

NaN == [k |-> "nan"]
Zero == [k |-> "zero"]

RECURSIVE Pow2(_)
Pow2(n) == IF n = 0 THEN 1 ELSE 2 * Pow2(n - 1)

\* the number of doublings that bring a up to at least b (a > 0)
RECURSIVE ShiftUp(_, _)
ShiftUp(a, b) == IF a >= b THEN 0 ELSE 1 + ShiftUp(2 * a, b)

\* the n binary digits of d < 2^n, most significant first
BitsOf(d, n) == [i \in 1..n |-> (d \div Pow2(n - i)) % 2]

\* the binary digits of n >= 0 without leading zeros
BinaryOf(n) == BitsOf(n, CHOOSE w \in 0..31 : Pow2(w) > n /\ (w = 0 \/ Pow2(w - 1) <= n))

\* the value of the bits as an integer (at most 30 bits)
RECURSIVE BitsValue(_)
BitsValue(bits) ==
    IF bits = <<>> THEN 0
    ELSE 2 * BitsValue(SubSeq(bits, 1, Len(bits) - 1)) + bits[Len(bits)]

\* 13 * n further quotient bits of r / b (r < b < 2^17) by long division,
\* 13 bits (a digit in base 8192) at a time, followed by the remainder left
\* over as the last element
RECURSIVE DivBits(_, _, _)
DivBits(r, b, n) ==
    IF n = 0 THEN <<r>>
    ELSE BitsOf((r * 8192) \div b, 13) \o DivBits((r * 8192) % b, b, n - 1)

\* bits + 1: the carry out (1 when every bit was 1) followed by the
\* incremented bits
IncBits(bits) ==
    IF \A i \in 1..Len(bits) : bits[i] = 1
    THEN <<1>> \o [i \in 1..Len(bits) |-> 0]
    ELSE LET j == CHOOSE i \in 1..Len(bits) :
                      bits[i] = 0 /\ \A h \in (i + 1)..Len(bits) : bits[h] = 1
         IN <<0>> \o [i \in 1..Len(bits) |->
                         IF i < j THEN bits[i] ELSE IF i = j THEN 1 ELSE 0]

\* round-to-nearest-even of a 53-bit significand: roundUp says that the
\* discarded part calls for the next significand
RoundSig(bits, e, roundUp) ==
    IF ~roundUp THEN [k |-> "num", m |-> bits, e |-> e]
    ELSE LET up == IncBits(bits)
         IN IF up[1] = 1
            THEN [k |-> "num", m |-> SubSeq(up, 1, MantissaBits), e |-> e + 1]
            ELSE [k |-> "num", m |-> SubSeq(up, 2, MantissaBits + 1), e |-> e]

\* a / b for integers 0 <= a <= b: 0/0 is NaN, 0/b is 0.  The quotient is
\* scaled into [1, 2), its 52 fraction bits are 4 digits in base 8192, and the
\* remainder decides the rounding.
FDiv(a, b) ==
    IF b = 0 THEN NaN
    ELSE IF a = 0 THEN Zero
    ELSE LET s == ShiftUp(a, b)
             q == DivBits(a * Pow2(s) - b, b, 4)
             rem == q[MantissaBits]
             roundUp == \/ 2 * rem > b
                        \/ 2 * rem = b /\ q[MantissaBits - 1] = 1
         IN RoundSig(<<1>> \o SubSeq(q, 1, MantissaBits - 1), 0 - s, roundUp)

\* bits * c + carry as a bit sequence without leading zeros, for c < 2^17:
\* 13 bits at a time from the least significant end
RECURSIVE MulBits(_, _, _)
MulBits(bits, c, carry) ==
    IF Len(bits) <= 13 THEN BinaryOf(BitsValue(bits) * c + carry)
    ELSE LET n == Len(bits)
             v == BitsValue(SubSeq(bits, n - 12, n)) * c + carry
         IN MulBits(SubSeq(bits, 1, n - 13), c, v \div 8192) \o BitsOf(v % 8192, 13)

AnyOne(bits) == \E i \in 1..Len(bits) : bits[i] = 1

\* x * c for an integer 1 <= c < 2^17: the exact product, rounded to 53 bits
FMul(x, c) ==
    IF x.k # "num" THEN x
    ELSE LET p == MulBits(x.m, c, 0)
             extra == Len(p) - MantissaBits
             top == SubSeq(p, 1, MantissaBits)
             tail == SubSeq(p, MantissaBits + 1, Len(p))
             roundUp == /\ extra > 0
                        /\ tail[1] = 1
                        /\ \/ AnyOne(SubSeq(tail, 2, Len(tail)))
                           \/ top[MantissaBits] = 1
         IN RoundSig(top, x.e + extra, roundUp)

\* floor(x) for 0 <= x < 2^30
Floor(x) ==
    IF x.k # "num" \/ x.e < 0 THEN 0
    ELSE BitsValue(SubSeq(x.m, 1, x.e + 1))

\* x >= t for an integer t and x >= 0 or NaN: every comparison with NaN is false
FGe(x, t) ==
    IF x.k = "nan" THEN FALSE
    ELSE IF t <= 0 THEN TRUE
    ELSE Floor(x) >= t

(***************************************************************************)
(* calculateBusFactor (part_000, lines 40-57).  A contributor is modelled  *)
(* by its contributions count, the only field the function reads.          *)
(***************************************************************************)
RECURSIVE SumSeq(_)
SumSeq(s) == IF s = <<>> THEN 0 ELSE s[1] + SumSeq(Tail(s))

\* line 41: contributors.reduce((acc, c) => acc + c.contributions, 0)
TotalCommits(contributors) == SumSeq(contributors)

\* x put into the descending sequence s behind the elements that are >= x
RECURSIVE InsertDesc(_, _)
InsertDesc(x, s) ==
    IF s = <<>> THEN <<x>>
    ELSE IF s[1] >= x THEN <<s[1]>> \o InsertDesc(x, Tail(s))
    ELSE <<x>> \o s

\* line 42 without the sort: the list is walked in the order given
SortDescMutant(s) == s
\* line 42: contributors.sort((a, b) => b.contributions - a.contributions)
RECURSIVE SortDesc(_)
SortDesc(s) ==
    IF s = <<>> THEN <<>>
    ELSE InsertDesc(s[Len(s)], SortDesc(SubSeq(s, 1, Len(s) - 1)))

\* line 50: (commitSum / totalCommits) * 100
ContributionPercentage(commitSum, totalCommits) == FMul(FDiv(commitSum, totalCommits), 100)

\* line 51 with the comparison turned round
BreakAtMutant(percentage, threshold) == ~FGe(percentage, threshold)
\* line 51: contributionPercentage >= threshold
BreakAt(percentage, threshold) == FGe(percentage, threshold)

\* lines 47-54 with the counter raised behind the test of line 51
RECURSIVE BusFactorLoopMutant(_, _, _, _, _, _, _)
BusFactorLoopMutant(sorted, totalCommits, threshold, i, commitSum, busFactor, quotients) ==
    IF i > Len(sorted) THEN [busFactor |-> busFactor, quotients |-> quotients]
    ELSE IF BreakAt(ContributionPercentage(commitSum + sorted[i], totalCommits), threshold)
         THEN [busFactor |-> busFactor,
               quotients |-> Append(quotients, FDiv(commitSum + sorted[i], totalCommits).k)]
         ELSE BusFactorLoopMutant(sorted, totalCommits, threshold, i + 1,
                                  commitSum + sorted[i], busFactor + 1,
                                  Append(quotients, FDiv(commitSum + sorted[i], totalCommits).k))

\* lines 47-54, from the i-th element of the sorted list on: the busFactor
\* counter once the loop has ended, and the kinds ("nan", "zero", "num") of
\* the quotients commitSum / totalCommits that line 50 has evaluated
RECURSIVE BusFactorLoop(_, _, _, _, _, _, _)
BusFactorLoop(sorted, totalCommits, threshold, i, commitSum, busFactor, quotients) ==
    IF i > Len(sorted) THEN [busFactor |-> busFactor, quotients |-> quotients]
    ELSE IF BreakAt(ContributionPercentage(commitSum + sorted[i], totalCommits), threshold)
         THEN [busFactor |-> busFactor + 1,
               quotients |-> Append(quotients, FDiv(commitSum + sorted[i], totalCommits).k)]
         ELSE BusFactorLoop(sorted, totalCommits, threshold, i + 1,
                            commitSum + sorted[i], busFactor + 1,
                            Append(quotients, FDiv(commitSum + sorted[i], totalCommits).k))

\* line 45 with the counter started one too high
BusFactorStartMutant == 0 + 1
\* line 45: let busFactor = 0
BusFactorStart == 0

\* lines 41-56: the value returned and the quotients evaluated on the way
BusFactorRun(contributors, threshold) ==
    BusFactorLoop(SortDesc(contributors), TotalCommits(contributors), threshold,
                  1, 0, BusFactorStart, <<>>)

calculateBusFactor(contributors, threshold) == BusFactorRun(contributors, threshold).busFactor

(***************************************************************************)
(* Strings of the program, as sequences of characters.                     *)
(***************************************************************************)
GithubPrefix == <<"h", "t", "t", "p", "s", ":", "/", "/", "g", "i", "t", "h", "u", "b", ".", "c", "o", "m", "/">>
InvalidUrlText == <<"I", "n", "v", "a", "l", "i", "d", " ", "U", "R", "L", ":", " ">>
ErrorText1 == <<"E", "r", "r", "o", "r", " ", "c", "a", "l", "c", "u", "l", "a", "t", "i", "n", "g", " ", "M", "e", "t", "r", "i", "c", "s", " ", "f", "o", "r", " ">>
ErrorText2 == <<":", " ">>

\* The values the steps throw: Error objects, with their name and message.
\* part_000 line 41: contributors.reduce on a response that is no array
ReduceTypeError ==
    [name |-> <<"T", "y", "p", "e", "E", "r", "r", "o", "r">>,
     message |-> <<"c", "o", "n", "t", "r", "i", "b", "u", "t", "o", "r", "s", ".", "r", "e", "d", "u", "c", "e", " ", "i", "s", " ", "n", "o", "t", " ", "a", " ", "f", "u", "n", "c", "t", "i", "o", "n">>]
\* axios rejects a request the server answers with status 500
AxiosError500 ==
    [name |-> <<"A", "x", "i", "o", "s", "E", "r", "r", "o", "r">>,
     message |-> <<"R", "e", "q", "u", "e", "s", "t", " ", "f", "a", "i", "l", "e", "d", " ", "w", "i", "t", "h", " ", "s", "t", "a", "t", "u", "s", " ", "c", "o", "d", "e", " ", "5", "0", "0">>]
\* new Error("Request failed with status code 403")
RequestError403 ==
    [name |-> <<"E", "r", "r", "o", "r">>,
     message |-> <<"R", "e", "q", "u", "e", "s", "t", " ", "f", "a", "i", "l", "e", "d", " ", "w", "i", "t", "h", " ", "s", "t", "a", "t", "u", "s", " ", "c", "o", "d", "e", " ", "4", "0", "3">>]
\* new Error()
BareError == [name |-> <<"E", "r", "r", "o", "r">>, message |-> <<>>]
\* no value has been caught
NoError == [name |-> <<>>, message |-> <<>>]

\* line 90: `${error}` is String(error), for an Error object
\* Error.prototype.toString: the name and the message with ": " between
\* them, or the one of them that is not empty
ErrorToString(error) ==
    IF error.name = <<>> THEN error.message
    ELSE IF error.message = <<>> THEN error.name
    ELSE error.name \o <<":", " ">> \o error.message

\* lines of the input file: a repository URL, a malformed line, a blank line
HelloWorldUrl == GithubPrefix \o <<"o", "c", "t", "o", "c", "a", "t", "/", "H", "e", "l", "l", "o", "-", "W", "o", "r", "l", "d">>
NotAUrl == <<"n", "o", "t", "-", "a", "-", "u", "r", "l">>
BlankLine == <<>>
InputLines == {HelloWorldUrl, NotAUrl, BlankLine}

(***************************************************************************)
(* parseGithubUrl (github-wrapper.ts, lines 23-29): the first match of     *)
(* /https:\/\/github\.com\/([^/]+)\/([^/]+)/ anywhere in the string.       *)
(***************************************************************************)
HasPrefixAt(url, p) ==
    /\ p + Len(GithubPrefix) - 1 <= Len(url)
    /\ SubSeq(url, p, p + Len(GithubPrefix) - 1) = GithubPrefix

\* the index just behind the longest run of characters other than "/" that
\* starts at p: what the greedy [^/]+ consumes
SegmentEnd(url, p) ==
    CHOOSE q \in p..(Len(url) + 1) :
        /\ \A h \in p..(q - 1) : url[h] # "/"
        /\ q = Len(url) + 1 \/ url[q] = "/"

\* the regular expression matches with its first character at p
MatchAt(url, p) ==
    /\ HasPrefixAt(url, p)
    /\ LET o == p + Len(GithubPrefix)
           oe == SegmentEnd(url, o)
       IN /\ oe > o
          /\ oe <= Len(url)
          /\ SegmentEnd(url, oe + 1) > oe + 1

\* the failure sentinel (null)
Null == [found |-> FALSE, owner |-> <<>>, repo |-> <<>>]

parseGithubUrl(url) ==
    IF \E p \in 1..Len(url) : MatchAt(url, p)
    THEN LET p == CHOOSE p \in 1..Len(url) :
                      MatchAt(url, p) /\ \A h \in 1..(p - 1) : ~MatchAt(url, h)
             o == p + Len(GithubPrefix)
             oe == SegmentEnd(url, o)
         IN [found |-> TRUE,
             owner |-> SubSeq(url, o, oe - 1),
             repo |-> SubSeq(url, oe + 1, SegmentEnd(url, oe + 1) - 1)]
    ELSE Null

\* Util/npmUtil.getGithubLink: the link normalisation done before parsing.
\* The input lines of this model are not package-registry links, and those
\* it leaves as they are.
getGithubLink(url) == url

(***************************************************************************)
(* State.  The first group is the process of github-wrapper.ts, the second *)
(* a call of calculateBusFactor.                                           *)
(***************************************************************************)
VARIABLES
    pc,             \* where the process is: "load", "exited", "loaded", "await", "done"
    tokenSet,       \* GITHUB_TOKEN is set in the environment
    lines,          \* the lines of the input file
    urls,           \* line 114: the lines that are not empty
    idx,            \* the index of the loop of line 126 into urls
    calls,          \* the calls of calculateMetricsForRepo, one per url
    fileExists,     \* the output file <filepath>.NDJSON exists
    file,           \* its records
    truncPending,   \* the writeFile of line 117 has been issued and has not run
    stdout,         \* what console.log has printed
    appended,       \* indices of the urls whose record appendFileSync has written
    bfPc,           \* "ready" before the call of calculateBusFactor, "returned" after
    contributors,   \* the array passed to calculateBusFactor (sorted in place)
    threshold,      \* the threshold passed
    busFactor,      \* the value returned, -1 before the call
    quotients,      \* kinds of the quotients line 50 evaluated during the call
    urlPc,          \* "ready" before the call of parseGithubUrl, "returned" after
    urlString,      \* the string passed to parseGithubUrl
    urlParsed       \* what it returned

bfVars == <<bfPc, contributors, threshold, busFactor, quotients>>

procVars == <<pc, tokenSet, lines, urls, idx, calls, fileExists, file, truncPending,
              stdout, appended>>

urlVars == <<urlPc, urlString, urlParsed>>

vars == <<procVars, bfVars, urlVars>>

\* the sequences over S of length at most n
SeqsUpTo(S, n) == UNION {[1..k -> S] : k \in 0..n}

ContributorLists == SeqsUpTo(ContribValues, MaxContributors)

InitCall ==
    /\ bfPc = "ready"
    /\ contributors \in ContributorLists
    /\ threshold \in ThresholdValues
    /\ busFactor = -1
    /\ quotients = <<>>

\* one call of calculateBusFactor(contributors, threshold)
CallBusFactor ==
    /\ bfPc = "ready"
    /\ bfPc' = "returned"
    /\ contributors' = SortDesc(contributors)
    /\ busFactor' = calculateBusFactor(contributors, threshold)
    /\ quotients' = BusFactorRun(contributors, threshold).quotients
    /\ UNCHANGED threshold

(***************************************************************************)
(* a call of parseGithubUrl.                                               *)
(***************************************************************************)
\* the call is made on strings put together from at most MaxUrlParts of
\* these pieces: the prefix of the pattern, the same prefix with another
\* host, two letters and the separator
OtherHostPrefix == <<"h", "t", "t", "p", "s", ":", "/", "/", "g", "i", "t", "l", "a", "b", ".", "c", "o", "m", "/">>
UrlParts == {GithubPrefix, OtherHostPrefix, <<"o">>, <<"r">>, <<"/">>}

RECURSIVE Concat(_)
Concat(parts) == IF parts = <<>> THEN <<>> ELSE Head(parts) \o Concat(Tail(parts))

UrlStrings == {Concat(parts) : parts \in SeqsUpTo(UrlParts, MaxUrlParts)}

InitUrlCall ==
    /\ urlPc = "ready"
    /\ urlString \in UrlStrings
    /\ urlParsed = Null

\* no call of parseGithubUrl is under way
InitIdleUrl ==
    /\ urlPc = "off"
    /\ urlString = <<>>
    /\ urlParsed = Null

\* one call of parseGithubUrl(url)
CallParseGithubUrl ==
    /\ urlPc = "ready"
    /\ urlPc' = "returned"
    /\ urlParsed' = parseGithubUrl(urlString)
    /\ UNCHANGED urlString



(***************************************************************************)
(* calculateMetricsForRepo (github-wrapper.ts, lines 35-92).               *)
(***************************************************************************)
\* lines 48-65 with the license fetched last
StepOrderMutant ==
    <<"fetchContributors", "calculateBusFactor", "calculateRampUp", "calculateCorrectness",
      "calculateResponsiveMaintener", "fetchRepoLicense", "calculateNetScore">>
\* lines 48-65: the awaited calls of the try block, in program order
StepOrder ==
    <<"fetchContributors", "calculateBusFactor", "calculateRampUp", "fetchRepoLicense",
      "calculateCorrectness", "calculateResponsiveMaintener", "calculateNetScore">>

Steps == {StepOrder[i] : i \in 1..Len(StepOrder)}

\* the steps wrapped by functionTimer (lines 50-65)
TimedSteps == Steps \ {"fetchContributors"}

\* line 50: the threshold calculateMetricsForRepo passes to calculateBusFactor
DefaultThreshold == 50

\* responses of GET /repos/{owner}/{repo}/contributors: response.data is the
\* list of contribution counts, or is no array at all but an object such as
\* {"message": "Not Found"}
Payloads ==
    {[isArray |-> TRUE, list |-> <<90, 10>>],
     [isArray |-> TRUE, list |-> <<>>],
     [isArray |-> FALSE, list |-> <<>>]}

NoPayload == [isArray |-> FALSE, list |-> <<>>]

\* function-timer.functionTimer: runs the computation once and pairs its
\* output with the elapsed time; a failure of the computation propagates
functionTimer(output) == [output |-> output, time |-> 0]

\* netscore.calculateNetScore: a fixed weighting of its four arguments; the
\* weights are not part of the sources, so the number it returns is one of
\* these (one of them has more than five significant digits)
NetScores == {1, 123456}
calculateNetScore(busFactorOut, rampUp, correctness, responsiveness) == NetScores

\* lines 66-69: the four arguments of calculateNetScore
NetScoreArguments ==
    <<"calculateBusFactor", "calculateRampUp", "calculateCorrectness",
      "calculateResponsiveMaintener">>

\* Number(x.toPrecision(5)) for an integer 0 <= x: five significant digits
RECURSIVE DigitsOf(_)
DigitsOf(x) == IF x < 10 THEN 1 ELSE 1 + DigitsOf(x \div 10)

RECURSIVE Pow10(_)
Pow10(n) == IF n = 0 THEN 1 ELSE 10 * Pow10(n - 1)

ToPrecision5(x) ==
    IF DigitsOf(x) <= 5 THEN x
    ELSE LET unit == Pow10(DigitsOf(x) - 5)
         IN ((x + unit \div 2) \div unit) * unit

\* `${x}` for an integer 0 <= x: its decimal digits
Digit(d) == <<"0", "1", "2", "3", "4", "5", "6", "7", "8", "9">>[d + 1]

RECURSIVE NumberToString(_)
NumberToString(x) ==
    IF x < 10 THEN <<Digit(x)>> ELSE Append(NumberToString(x \div 10), Digit(x % 10))

\* what a step that succeeds may give: bus factor from the contributors
\* fetched, net score from the four outputs, the others from the remote API
StepOutput(step, call) ==
    CASE step = "calculateBusFactor" ->
             {functionTimer(calculateBusFactor(call.payload.list, DefaultThreshold))}
      [] step = "calculateNetScore" ->
             {functionTimer(score) :
                 score \in calculateNetScore(
                     call.outputs[NetScoreArguments[1]].output,
                     call.outputs[NetScoreArguments[2]].output,
                     call.outputs[NetScoreArguments[3]].output,
                     call.outputs[NetScoreArguments[4]].output)}
      [] step = "fetchRepoLicense" -> {functionTimer("license")}
      [] OTHER -> {functionTimer(1)}

\* what a step that fails may throw: the TypeError of reduce, the errors of
\* a request that fails, an error without a message
ThrownBy(step) ==
    CASE step = "calculateBusFactor" -> {ReduceTypeError}
      [] step = "fetchContributors" -> {AxiosError500, RequestError403}
      [] step = "calculateNetScore" -> {BareError}
      [] OTHER -> {RequestError403}

NoReport == [f \in {} |-> 0]

\* lines 72-86: the record of the template literal; the value of NetScore
\* stands between quotes (line 74) and is a string, the other scores and
\* the latencies are numbers
Report(url, outputs) ==
    [URL |-> url,
     NetScore |-> NumberToString(ToPrecision5(outputs["calculateNetScore"].output)),
     NetScore_Latency |-> ToPrecision5(outputs["calculateNetScore"].time),
     RampUp |-> ToPrecision5(outputs["calculateRampUp"].output),
     RampUp_Latency |-> ToPrecision5(outputs["calculateRampUp"].time),
     Correctness |-> ToPrecision5(outputs["calculateCorrectness"].output),
     Correctness_Latency |-> ToPrecision5(outputs["calculateCorrectness"].time),
     BusFactor |-> ToPrecision5(outputs["calculateBusFactor"].output),
     BusFactor_Latency |-> ToPrecision5(outputs["calculateBusFactor"].time),
     ResponsiveMaintainer |-> ToPrecision5(outputs["calculateResponsiveMaintener"].output),
     ResponsiveMaintainer_Latency |-> ToPrecision5(outputs["calculateResponsiveMaintener"].time),
     License |-> outputs["fetchRepoLicense"].output,
     License_Latency |-> ToPrecision5(outputs["fetchRepoLicense"].time)]

\* The string a call returns: text is the string when it is no report,
\* report the fields of the JSON record when it is one.
\* line 41
InvalidUrlResult(githubUrl) == [text |-> InvalidUrlText \o githubUrl, report |-> NoReport]

\* a catch block that returns what has been computed so far
ErrorResultMutant(owner, repo, error, outputs) ==
    [text |-> ErrorText1 \o owner \o <<"/">> \o repo \o ErrorText2 \o ErrorToString(error),
     report |-> outputs]
\* line 90
ErrorResult(owner, repo, error, outputs) ==
    [text |-> ErrorText1 \o owner \o <<"/">> \o repo \o ErrorText2 \o ErrorToString(error),
     report |-> NoReport]

\* line 88
ReportResult(url, outputs) == [text |-> <<>>, report |-> Report(url, outputs)]

NoResult == [text |-> <<>>, report |-> NoReport]

\* a call of calculateMetricsForRepo that has not begun
IdleCall ==
    [status |-> "idle", url |-> <<>>, repoInfo |-> Null, inflight |-> "none",
     invoked |-> <<>>, completed |-> {}, outputs |-> NoReport, payload |-> NoPayload,
     netArgs |-> <<>>, failed |-> "none", error |-> NoError, result |-> NoResult]

\* the call behind the invocation of `step`, which it now awaits
Invoke(call, step) ==
    [call EXCEPT !.inflight = step,
                 !.invoked = Append(@, step),
                 !.netArgs = IF step = "calculateNetScore"
                             THEN [k \in 1..4 |-> call.outputs[NetScoreArguments[k]].output]
                             ELSE @]

\* line 40 with the test left out
ResolutionFailedMutant(repoInfo) == FALSE
\* line 40: !repoInfo
ResolutionFailed(repoInfo) == ~repoInfo.found

\* lines 37-48: the call up to its first await
StartCall(url) ==
    LET githubUrl == getGithubLink(url)
        repoInfo == parseGithubUrl(githubUrl)
        begun == [IdleCall EXCEPT !.url = url, !.repoInfo = repoInfo]
    IN IF ResolutionFailed(repoInfo)
       THEN [begun EXCEPT !.status = "returned", !.result = InvalidUrlResult(githubUrl)]
       ELSE Invoke([begun EXCEPT !.status = "running"], StepOrder[1])

StepIndex(step) == CHOOSE k \in 1..Len(StepOrder) : StepOrder[k] = step

\* the awaited step has succeeded with `out`: the call goes on to its next
\* await, or to the return of line 88
Continue(call, out) ==
    LET step == call.inflight
        k == StepIndex(step)
        outputs == IF step = "fetchContributors" THEN call.outputs
                   ELSE [s \in DOMAIN call.outputs \cup {step} |->
                            IF s = step THEN out ELSE call.outputs[s]]
        done == [call EXCEPT !.outputs = outputs,
                             !.completed = @ \cup {step},
                             !.payload = IF step = "fetchContributors" THEN out ELSE @]
    IN IF k < Len(StepOrder)
       THEN Invoke(done, StepOrder[k + 1])
       ELSE [done EXCEPT !.status = "returned", !.inflight = "none",
                         !.result = ReportResult(call.url, outputs)]

\* a catch block that invokes the failed step once more
CatchMutant(call, error) ==
    Invoke([call EXCEPT !.failed = call.inflight, !.error = error], call.inflight)
\* the awaited step has thrown `error`: the catch block of lines 89-91
Catch(call, error) ==
    [call EXCEPT !.status = "returned", !.inflight = "none", !.failed = call.inflight,
                 !.error = error,
                 !.result = ErrorResult(call.repoInfo.owner, call.repoInfo.repo,
                                        error, call.outputs)]

(***************************************************************************)
(* The process of github-wrapper.ts: module load, then parseUrlFile.       *)
(***************************************************************************)
TypeOK ==
    /\ pc \in {"off", "load", "exited", "loaded", "await", "done"}
    /\ tokenSet \in BOOLEAN
    /\ idx \in 0..(Len(lines) + 1)
    /\ truncPending \in BOOLEAN
    /\ fileExists \in BOOLEAN

InitProcess ==
    /\ pc = "load"
    /\ tokenSet \in BOOLEAN
    /\ lines \in SeqsUpTo(InputLines, MaxLines)
    /\ urls = <<>>
    /\ idx = 0
    /\ calls = <<>>
    /\ fileExists = FALSE
    /\ file = <<>>
    /\ truncPending = FALSE
    /\ stdout = <<>>
    /\ appended = <<>>

InitIdleBF ==
    /\ bfPc = "off"
    /\ contributors = <<>>
    /\ threshold = DefaultThreshold
    /\ busFactor = -1
    /\ quotients = <<>>

Init == InitProcess /\ InitIdleBF /\ InitIdleUrl

\* line 15 with the test left out
TokenMissingMutant(token) == FALSE
\* line 15: !Util.Constants.GITHUB_TOKEN
TokenMissing(token) == ~token

\* Util.Logger.logErrorAndExit: logs the message and ends the process
logErrorAndExit == "exited"

\* lines 15-17, run when the module is loaded
LoadModule ==
    /\ pc = "load"
    /\ pc' = IF TokenMissing(tokenSet) THEN logErrorAndExit ELSE "loaded"
    /\ UNCHANGED <<tokenSet, lines, urls, idx, calls, fileExists, file, truncPending,
                   stdout, appended, bfVars, urlVars>>

\* line 114: split('\n').filter(Boolean) keeps the lines that are not empty
RECURSIVE FilterBoolean(_)
FilterBoolean(ls) ==
    IF ls = <<>> THEN <<>>
    ELSE IF ls[1] = <<>> THEN FilterBoolean(Tail(ls))
    ELSE <<ls[1]>> \o FilterBoolean(Tail(ls))

\* line 127 without the await: the loop goes on whatever the state of the call
CallSettledMutant(call) == TRUE
\* line 127: await resumes the loop once the promise of the call has settled
CallSettled(call) == call.status = "returned"

\* lines 114-127: parseUrlFile up to its first await.  The file is read, the
\* writeFile that creates the output file is handed to the thread pool, and
\* the loop makes its first call.
ParseUrlFile ==
    /\ pc = "loaded"
    /\ LET us == FilterBoolean(lines)
       IN /\ urls' = us
          /\ idx' = 1
          /\ calls' = [i \in 1..Len(us) |-> IF i = 1 THEN StartCall(us[1]) ELSE IdleCall]
          /\ pc' = IF us = <<>> THEN "done" ELSE "await"
    /\ truncPending' = TRUE
    /\ UNCHANGED <<tokenSet, lines, fileExists, file, stdout, appended, bfVars, urlVars>>

\* lines 117-123: the thread pool opens the output file with flag 'w', which
\* creates it or cuts it to length 0, and writes the empty string
WriteFileRuns ==
    /\ truncPending
    /\ truncPending' = FALSE
    /\ fileExists' = TRUE
    /\ file' = <<>>
    /\ UNCHANGED <<pc, tokenSet, lines, urls, idx, calls, stdout, appended, bfVars, urlVars>>

\* a step awaited by call i settles: the continuation of the call runs up
\* to its next await or to its return
StepReturns(i, out) ==
    /\ calls[i].status = "running"
    /\ calls' = [calls EXCEPT ![i] = Continue(calls[i], out)]
    /\ UNCHANGED <<pc, tokenSet, lines, urls, idx, fileExists, file, truncPending,
                   stdout, appended, bfVars, urlVars>>

StepThrows(i, error) ==
    /\ calls[i].status = "running"
    /\ calls' = [calls EXCEPT ![i] = Catch(calls[i], error)]
    /\ UNCHANGED <<pc, tokenSet, lines, urls, idx, fileExists, file, truncPending,
                   stdout, appended, bfVars, urlVars>>

\* line 48: the contributors request is answered
FetchReturns ==
    \E i \in DOMAIN calls : \E payload \in Payloads :
        /\ calls[i].inflight = "fetchContributors"
        /\ StepReturns(i, payload)

\* lines 29-32 of part_000: the request fails and fetchContributors rethrows
FetchThrows ==
    \E i \in DOMAIN calls : \E error \in ThrownBy("fetchContributors") :
        /\ calls[i].inflight = "fetchContributors"
        /\ StepThrows(i, error)

\* line 50: calculateBusFactor runs on response.data; reduce is no function
\* of a value that is no array, and the call throws a TypeError
BusFactorSettles ==
    \E i \in DOMAIN calls :
        /\ calls[i].inflight = "calculateBusFactor"
        /\ IF calls[i].payload.isArray
           THEN \E out \in StepOutput("calculateBusFactor", calls[i]) : StepReturns(i, out)
           ELSE \E error \in ThrownBy("calculateBusFactor") : StepThrows(i, error)

\* lines 53-65: a timed step that goes to the remote API, or the aggregator
TimedStepReturns ==
    \E i \in DOMAIN calls :
        /\ calls[i].inflight \in TimedSteps \ {"calculateBusFactor"}
        /\ \E out \in StepOutput(calls[i].inflight, calls[i]) : StepReturns(i, out)

TimedStepThrows ==
    \E i \in DOMAIN calls :
        /\ calls[i].inflight \in TimedSteps \ {"calculateBusFactor"}
        /\ \E error \in ThrownBy(calls[i].inflight) : StepThrows(i, error)

\* lines 127-130 and back to 126: the await of the loop resumes with the
\* result, logs and appends it, and the loop makes its next call or ends
LoopResumes ==
    /\ pc = "await"
    /\ CallSettled(calls[idx])
    /\ LET result == calls[idx].result
       IN /\ stdout' = Append(stdout, result)
          /\ file' = Append(file, result)
          /\ appended' = Append(appended, [index |-> idx, record |-> result])
    /\ fileExists' = TRUE
    /\ idx' = idx + 1
    /\ IF idx + 1 > Len(urls)
       THEN /\ pc' = "done"
            /\ UNCHANGED calls
       ELSE /\ pc' = "await"
            /\ calls' = [calls EXCEPT ![idx + 1] = StartCall(urls[idx + 1])]
    /\ UNCHANGED <<tokenSet, lines, urls, truncPending, bfVars, urlVars>>

Next ==
    \/ LoadModule
    \/ ParseUrlFile
    \/ WriteFileRuns
    \/ FetchReturns
    \/ FetchThrows
    \/ BusFactorSettles
    \/ TimedStepReturns
    \/ TimedStepThrows
    \/ LoopResumes

Spec == Init /\ [][Next]_vars

\* the process of github-wrapper.ts stays unloaded while calculateBusFactor
\* is exercised on its own
InitIdleProcess ==
    /\ pc = "off"
    /\ tokenSet = TRUE
    /\ lines = <<>>
    /\ urls = <<>>
    /\ idx = 0
    /\ calls = <<>>
    /\ fileExists = FALSE
    /\ file = <<>>
    /\ truncPending = FALSE
    /\ stdout = <<>>
    /\ appended = <<>>

NextBF == CallBusFactor /\ UNCHANGED <<procVars, urlVars>>

InitBF == InitCall /\ InitIdleProcess /\ InitIdleUrl

SpecBF == InitBF /\ [][NextBF]_vars

\* the thresholds the calls are compared on when a property relates several
\* calls: below 0, the tens from 0 to 100, 1, 58 and above 100
SampleThresholds == {t \in ThresholdValues : t % 10 = 0 \/ t \in {-1, 1, 58, 101}}

InitBFSample == InitBF /\ threshold \in SampleThresholds

\* calculateBusFactor on every contributor list and every sampled threshold
SpecBFSample == InitBFSample /\ [][NextBF]_vars

\* parseGithubUrl is exercised on its own
NextUrl == CallParseGithubUrl /\ UNCHANGED <<procVars, bfVars>>

InitUrl == InitUrlCall /\ InitIdleProcess /\ InitIdleBF

SpecUrl == InitUrl /\ [][NextUrl]_vars

(***************************************************************************)
(* Properties of parseUrlFile and calculateMetricsForRepo (under Spec).    *)
(***************************************************************************)
\* sub occurs in s
Contains(s, sub) ==
    \E p \in 1..(Len(s) - Len(sub) + 1) : SubSeq(s, p, p + Len(sub) - 1) = sub

\* what resolving the url of call i yields
Resolved(i) == parseGithubUrl(getGithubLink(urls[i]))

\* the urls whose record appendFileSync has written, in the order written
AppendedIndices == [k \in 1..Len(appended) |-> appended[k].index]

WasAppended(i) == \E k \in 1..Len(appended) : appended[k].index = i

\* C1: the output file holds, in input order, exactly the records appended
\* so far - a record once appended is never lost - and therefore one record
\* per non-blank line once parseUrlFile has completed, whenever the
\* writeFile of line 117 runs.
C1_FileHoldsEveryRecord ==
    /\ file = [k \in 1..Len(appended) |-> appended[k].record]
    /\ pc = "done" =>
           file = [i \in 1..Len(FilterBoolean(lines)) |-> calls[i].result]

\* C2: the repositories are processed one after the other in input order:
\* a call has begun only if every earlier call has returned and its record
\* has been appended, and never are two calls in progress.
C2_StrictlySequential ==
    /\ \A i \in DOMAIN calls : \A j \in DOMAIN calls :
           (i < j /\ calls[j].status # "idle") =>
               (calls[i].status = "returned" /\ WasAppended(i))
    /\ Cardinality({i \in DOMAIN calls : calls[i].status = "running"}) <= 1
    /\ AppendedIndices = [k \in 1..Len(appended) |-> k]
    /\ \A k \in 1..Len(appended) : appended[k].record = calls[k].result

\* the second pipeline is in progress behind a first one that ran its steps
C2_Witness ==
    /\ Len(urls) >= 2
    /\ calls[1].invoked # <<>>
    /\ calls[2].status = "running"
    /\ calls[2].inflight = "calculateRampUp"

\* C3: when a step of the pipeline of a resolved url throws, whichever step
\* it is, the call returns (it does not reject) a single error string that
\* names owner/repo and carries no field of a Report, and once the record is
\* written parseUrlFile has gone on to the next url.
C3_FailureIsOneErrorString ==
    \A i \in DOMAIN calls :
        calls[i].failed # "none" =>
            /\ Resolved(i).found
            /\ calls[i].status = "returned"
            /\ calls[i].result.report = NoReport
            /\ calls[i].error \in ThrownBy(calls[i].failed)
            /\ calls[i].result.text =
                   ErrorText1 \o Resolved(i).owner \o <<"/">> \o Resolved(i).repo
                       \o ErrorText2 \o ErrorToString(calls[i].error)
            /\ Contains(calls[i].result.text,
                        Resolved(i).owner \o <<"/">> \o Resolved(i).repo)
            /\ pc \in {"await", "done"}
            /\ (WasAppended(i) /\ i < Len(urls)) => calls[i + 1].status # "idle"
            /\ (WasAppended(i) /\ i = Len(urls)) => pc = "done"

\* the aggregator failed after six successful steps, the error string was
\* written and the next url is being processed
C3_Witness ==
    /\ Len(urls) >= 2
    /\ calls[1].failed = "calculateNetScore"
    /\ DOMAIN calls[1].outputs # {}
    /\ WasAppended(1)
    /\ calls[2].status = "running"

\* C4: a line on which the resolver returns the failure sentinel yields a
\* string containing "Invalid URL" without any fetch, calculator or
\* aggregator being invoked, and that string is written as the record of the
\* line and the loop goes on to the next url.
C4_InvalidUrlIsReported ==
    \A i \in DOMAIN calls :
        (calls[i].status # "idle" /\ ~Resolved(i).found) =>
            /\ calls[i].status = "returned"
            /\ Contains(calls[i].result.text, SubSeq(InvalidUrlText, 1, 11))
            /\ calls[i].result.report = NoReport
            /\ calls[i].invoked = <<>>
            /\ calls[i].netArgs = <<>>
            /\ calls[i].outputs = NoReport
            /\ \A k \in 1..Len(appended) :
                   appended[k].index = i =>
                       /\ appended[k].record = calls[i].result
                       /\ stdout[k] = calls[i].result
                       /\ i < Len(urls) => calls[i + 1].status # "idle"
                       /\ i = Len(urls) => pc = "done"

\* the malformed first line has its record written and the next url is in
\* progress
C4_Witness ==
    /\ Len(urls) >= 2
    /\ urls[1] = NotAUrl
    /\ WasAppended(1)
    /\ calls[2].status = "running"

\* s is an initial part of t
IsPrefix(s, t) == Len(s) <= Len(t) /\ s = SubSeq(t, 1, Len(s))

\* the steps of call i that have completed successfully
Completed(i) == calls[i].completed

\* what the order of the calls has in common whatever the order is: a step
\* is invoked after the url has resolved and after every step invoked before
\* it has completed successfully, the aggregator after the four scores and on
\* exactly their outputs, and the report is assembled after the aggregator
StepsOneAfterTheOther(i) ==
    /\ calls[i].invoked # <<>> => Resolved(i).found
    /\ \A k \in 1..Len(calls[i].invoked) :
           \/ calls[i].invoked[k] \in Completed(i)
           \/ /\ k = Len(calls[i].invoked)
              /\ calls[i].invoked[k] \in {calls[i].inflight, calls[i].failed}
    /\ calls[i].inflight # "none" =>
           calls[i].invoked[Len(calls[i].invoked)] = calls[i].inflight
    /\ (\E k \in 1..Len(calls[i].invoked) : calls[i].invoked[k] = "calculateNetScore") =>
           /\ {"calculateBusFactor", "calculateRampUp", "calculateCorrectness",
               "calculateResponsiveMaintener"} \subseteq DOMAIN calls[i].outputs
           /\ calls[i].netArgs =
                  <<calls[i].outputs["calculateBusFactor"].output,
                    calls[i].outputs["calculateRampUp"].output,
                    calls[i].outputs["calculateCorrectness"].output,
                    calls[i].outputs["calculateResponsiveMaintener"].output>>
    /\ calls[i].result.report # NoReport =>
           /\ "calculateNetScore" \in DOMAIN calls[i].outputs
           /\ calls[i].result.report.NetScore =
                  NumberToString(ToPrecision5(calls[i].outputs["calculateNetScore"].output))

\* C5 as stated: the steps of a call are invoked in the order fetch, bus
\* factor, ramp-up, correctness, responsiveness, license, aggregator, each
\* after the one before it has completed.
C5_OrderAsStated ==
    \A i \in DOMAIN calls :
        /\ IsPrefix(calls[i].invoked,
                    <<"fetchContributors", "calculateBusFactor", "calculateRampUp",
                      "calculateCorrectness", "calculateResponsiveMaintener",
                      "fetchRepoLicense", "calculateNetScore">>)
        /\ StepsOneAfterTheOther(i)

\* C5, amended: the steps of a call are invoked in the order fetch, bus
\* factor, ramp-up, license, correctness, responsiveness, aggregator, each
\* after the one before it has completed successfully; the aggregator is
\* invoked after the four scores, on exactly their outputs, and the report is
\* assembled last.
C5_OrderOfTheCode ==
    \A i \in DOMAIN calls :
        /\ IsPrefix(calls[i].invoked,
                    <<"fetchContributors", "calculateBusFactor", "calculateRampUp",
                      "fetchRepoLicense", "calculateCorrectness",
                      "calculateResponsiveMaintener", "calculateNetScore">>)
        /\ StepsOneAfterTheOther(i)

\* a call has run all its steps and returned a report
C5_Witness ==
    \E i \in DOMAIN calls :
        /\ Len(calls[i].invoked) = 7
        /\ calls[i].status = "returned"
        /\ calls[i].failed = "none"
        /\ calls[i].result.report # NoReport

\* C6: without GITHUB_TOKEN the process ends before any repository is
\* processed: no url is read or resolved, no call begins, no request is
\* issued, nothing is printed and the output file is neither created nor
\* written.
C6_NoWorkWithoutToken ==
    ~tokenSet =>
        /\ pc \in {"load", "exited"}
        /\ urls = <<>>
        /\ calls = <<>>
        /\ appended = <<>>
        /\ stdout = <<>>
        /\ file = <<>>
        /\ ~fileExists
        /\ ~truncPending

\* the process has ended on the missing token with urls waiting in the file
C6_Witness ==
    /\ ~tokenSet
    /\ pc = "exited"
    /\ Len(FilterBoolean(lines)) >= 1
    /\ \E k \in 1..Len(lines) : parseGithubUrl(lines[k]).found

(***************************************************************************)
(* Properties of calculateBusFactor (under SpecBF).  After the call,       *)
(* contributors is the list passed, sorted.                                *)
(***************************************************************************)
\* the largest sum k elements of s can have
RECURSIVE MaxOf(_)
MaxOf(S) ==
    LET x == CHOOSE x \in S : TRUE
    IN IF S = {x} THEN x
       ELSE LET m == MaxOf(S \ {x}) IN IF x > m THEN x ELSE m

RECURSIVE SumOver(_, _)
SumOver(s, I) ==
    IF I = {} THEN 0
    ELSE LET i == CHOOSE i \in I : TRUE IN s[i] + SumOver(s, I \ {i})

TopSum(s, k) ==
    MaxOf({SumOver(s, I) : I \in {J \in SUBSET (1..Len(s)) : Cardinality(J) = k}})

\* k top contributors hold at least `percent` percent of the total
Reaches(s, k, percent) == 100 * TopSum(s, k) >= percent * SumSeq(s)

\* C7: for a positive total and a threshold in 1..100 the value returned is
\* the smallest k >= 1 whose k largest counts sum to at least threshold
\* percent of the total.
C7_SmallestSufficientK ==
    (bfPc = "returned" /\ SumSeq(contributors) > 0 /\ threshold \in 1..100) =>
        /\ busFactor \in 1..Len(contributors)
        /\ Reaches(contributors, busFactor, threshold)
        /\ \A k \in 1..(busFactor - 1) : ~Reaches(contributors, k, threshold)

\* C8: on the empty list the value returned is 0 for every threshold, and no
\* quotient is evaluated.
C8_EmptyListGivesZero ==
    (bfPc = "returned" /\ contributors = <<>>) =>
        /\ busFactor = 0
        /\ quotients = <<>>

\* the call has returned on the empty list with a threshold above 100
C8_Witness ==
    /\ bfPc = "returned"
    /\ contributors = <<>>
    /\ threshold > 100
    /\ busFactor = 0

\* C9: on a list whose total is zero, empty or not, the value returned is 0
\* and the quotient by the zero total is never evaluated.
C9_ZeroTotalGivesZero ==
    (bfPc = "returned" /\ SumSeq(contributors) = 0) =>
        /\ busFactor = 0
        /\ \A k \in 1..Len(quotients) : quotients[k] # "nan"

\* C10: on a list of one contributor with N > 0 contributions the value
\* returned is 1 for every threshold up to 100, those of 0 and below
\* included.
C10_SingleContributorGivesOne ==
    (bfPc = "returned" /\ Len(contributors) = 1 /\ contributors[1] > 0
        /\ threshold <= 100) =>
        busFactor = 1

\* the call has returned 1 on a single contributor with a negative threshold
C10_Witness ==
    /\ bfPc = "returned"
    /\ contributors = <<29>>
    /\ threshold < 0
    /\ busFactor = 1


\* C11: for a fixed contributor list the value returned does not decrease
\* when the threshold grows: no call with a threshold t2 >= threshold returns
\* less (thresholds below 0 and above 100 and lists of total 0 included).
C11_MonotoneInThreshold ==
    bfPc = "returned" =>
        \A t2 \in SampleThresholds :
            t2 >= threshold => busFactor <= calculateBusFactor(contributors, t2)

\* the call has returned 1 at threshold 50 on a list on which threshold 60
\* gives 2
C11_Witness ==
    /\ bfPc = "returned"
    /\ contributors = <<29, 21>>
    /\ threshold = 50
    /\ busFactor = 1
    /\ calculateBusFactor(contributors, 60) = 2

\* the arrangements of the elements of s
Arrangements(s) ==
    {[i \in 1..Len(s) |-> s[f[i]]] :
        f \in {g \in [1..Len(s) -> 1..Len(s)] :
                  \A i, j \in 1..Len(s) : g[i] = g[j] => i = j}}

\* C14: the value returned does not depend on the order of the list: every
\* arrangement of the contributors gives, at the same threshold, the value
\* the call has returned.
C14_OrderIndependent ==
    bfPc = "returned" =>
        \A q \in Arrangements(contributors) :
            calculateBusFactor(q, threshold) = busFactor

\* the call has returned on three contributors, two of them with equal
\* counts, whose arrangements differ
C14_Witness ==
    /\ bfPc = "returned"
    /\ contributors = <<29, 21, 21>>
    /\ threshold = 50
    /\ busFactor = 2
    /\ Cardinality(Arrangements(contributors)) = 3

\* C15: the value returned lies between 0 and the number of contributors,
\* and is 0 exactly when the list is empty.
C15_BetweenZeroAndLength ==
    bfPc = "returned" =>
        /\ busFactor >= 0
        /\ busFactor <= Len(contributors)
        /\ busFactor = 0 <=> contributors = <<>>

\* the call has counted only the top contributor of three at a threshold of
\* 0 or below
C15_Witness ==
    /\ bfPc = "returned"
    /\ Len(contributors) = 3
    /\ threshold <= 0
    /\ busFactor = 1

\* the steps of s are all different
NoRepeats(s) == \A i, j \in 1..Len(s) : s[i] = s[j] => i = j

\* C13: no retries and fail-fast: for each input URL every step (the
\* contributors fetch, each calculator, the licence fetch, the aggregator)
\* is invoked at most once, and once a step has failed the step that failed
\* is the last one the call has invoked: the call has returned and invokes
\* nothing after it.
C13_NoRetriesFailFast ==
    \A i \in DOMAIN calls :
        /\ NoRepeats(calls[i].invoked)
        /\ \A k \in 1..Len(calls[i].invoked) : calls[i].invoked[k] \in Steps
        /\ calls[i].failed # "none" =>
               /\ calls[i].status = "returned"
               /\ calls[i].inflight = "none"
               /\ calls[i].invoked # <<>>
               /\ calls[i].invoked[Len(calls[i].invoked)] = calls[i].failed

\* a call whose licence fetch failed after three steps succeeded, and the
\* process has gone on to its end
C13_Witness ==
    /\ pc = "done"
    /\ \E i \in DOMAIN calls :
           /\ calls[i].failed = "fetchRepoLicense"
           /\ Len(calls[i].invoked) = 4
           /\ calls[i].completed = {"fetchContributors", "calculateBusFactor", "calculateRampUp"}

(***************************************************************************)
(* Properties of parseGithubUrl (under SpecUrl).                           *)
(***************************************************************************)
NoSlash(s) == \A i \in 1..Len(s) : s[i] # "/"

\* the pairs <<owner, repo>>, both non-empty and without "/", for which s is
\* exactly https://github.com/{owner}/{repo}; there is at most one
ExactShapes(s) ==
    IF ~HasPrefixAt(s, 1) THEN {}
    ELSE LET n == Len(GithubPrefix)
         IN {<<SubSeq(s, n + 1, k - 1), SubSeq(s, k + 1, Len(s))>> :
                k \in {h \in (n + 2)..(Len(s) - 1) :
                          /\ s[h] = "/"
                          /\ NoSlash(SubSeq(s, n + 1, h - 1))
                          /\ NoSlash(SubSeq(s, h + 1, Len(s)))}}

\* C12: parseGithubUrl round trip: on a string that is exactly
\* https://github.com/{owner}/{repo}, owner and repo non-empty and without
\* "/", it returns that owner and that repo, and on every other string
\* (text before the prefix, another host, a missing or empty repo segment,
\* anything behind the repo) it returns null.
C12_RoundTrip ==
    urlPc = "returned" =>
        IF ExactShapes(urlString) = {}
        THEN urlParsed = Null
        ELSE \E shape \in ExactShapes(urlString) :
                 urlParsed = [found |-> TRUE, owner |-> shape[1], repo |-> shape[2]]

====
